---- MODULE Spec2Model ----
(***************************************************************************)
(* The fan-out/fan-in aggregation of github-sniffer (src/main.go, second   *)
(* program of the file, lines 268-644): checkServer calls getRepos once,   *)
(* starts one goroutine per repository calling getRepoEmails, joins them   *)
(* with a WaitGroup, closes the buffered channel and merges what it holds. *)
(***************************************************************************)
EXTENDS Integers, Sequences, FiniteSets, TLC

\* ------------------------------------------------------------------ bounds
MaxRepos == 2
MaxCommits == 2

RepoNames == {"o/a", "o/b", "o/c"}
Emails == {"x@e", "y@e"}

\* ------------------------------------------------------------ environment
\* What the HTTP API can answer to one request: the request fails, reading
\* the body fails, the body does not decode, or the body decodes to a list.
\* "url": http.NewRequest fails, nothing is sent; "request": c.Do fails;
\* "read": io.ReadAll fails; "decode": json.Unmarshal fails, having decoded a
\* part of the body.
ErrKinds == {"url", "request", "read", "decode"}

SeqsUpTo(S, n) == UNION {[1..k -> S] : k \in 0..n}

\* The listing endpoint names each repository of the account once.
RepoLists ==
    {s \in SeqsUpTo(RepoNames, MaxRepos) :
        \A i, j \in 1..Len(s) : i # j => s[i] # s[j]}
CommitLists == SeqsUpTo(Emails, MaxCommits)

ListerResponses ==
    [kind : {"url", "request", "read"}] \cup [kind : {"decode", "ok"}, body : RepoLists]

FetcherResponses ==
    [kind : {"url", "request", "read"}] \cup [kind : {"decode", "ok"}, body : CommitLists]

\* ---------------------------------------------------------------- messages
NoMsg == [type |-> "none"]
dataMsg(d) == [type |-> "dataMsg", data |-> d]
errMsg(e) == [type |-> "errMsg", err |-> e]

Wrapper(d) == [data |-> d]

\* ------------------------------------------------------- pure computations
EmptyAcc == [data |-> <<>>, unique |-> {}]

\* variant of ScanCommit: the exists check is missing
ScanAlways(acc, email) ==
    [data |-> Append(acc.data, email), unique |-> acc.unique \cup {email}]

\* getRepoEmails, lines 418-423: one commit of the scan
\*   if !exists { data = append(data, email); uniqueEmails[email] = struct{}{} }
ScanCommit(acc, email) ==
    IF email \in acc.unique
    THEN acc
    ELSE [data |-> Append(acc.data, email), unique |-> acc.unique \cup {email}]

\* getRepoEmails, lines 416-424: for _, d := range commitData { ... }
RECURSIVE ScanCommits(_, _)
ScanCommits(acc, commits) ==
    IF commits = <<>>
    THEN acc
    ELSE ScanCommits(ScanCommit(acc, Head(commits)), Tail(commits))

\* variant of MergeEmail: the exists check is missing
AppendAlways(acc, email) ==
    [data |-> Append(acc.data, email), unique |-> acc.unique \cup {email}]

\* variant of MergeEmail: a new email is put in front
PrependUnique(acc, email) ==
    IF email \in acc.unique
    THEN acc
    ELSE [data |-> <<email>> \o acc.data, unique |-> acc.unique \cup {email}]

\* checkServer, lines 469-473: one email of one received Wrapper
\*   if !exists { data = append(data, email); uniqueEmails[email] = struct{}{} }
MergeEmail(acc, email) ==
    IF email \in acc.unique
    THEN acc
    ELSE [data |-> Append(acc.data, email), unique |-> acc.unique \cup {email}]

\* variant of MergeWrapper: the loop ends after its first iteration
MergeFirstOnly(acc, emails) ==
    IF emails = <<>> THEN acc ELSE MergeEmail(acc, Head(emails))

\* checkServer, lines 468-474: for _, email := range repoEmails.data { ... }
RECURSIVE MergeWrapper(_, _)
MergeWrapper(acc, emails) ==
    IF emails = <<>>
    THEN acc
    ELSE MergeWrapper(MergeEmail(acc, Head(emails)), Tail(emails))

\* var auth string (line 338), set from the -auth flag before the program runs
VARIABLE auth

AuthValues == {"", "tok"}

NoReq == [sent |-> FALSE, hdr |-> <<>>]

\* getRepos, lines 354-359: req.Header.Set("Authorization", "Bearer "+auth)
ListerHeader == IF auth # "" THEN <<"Bearer", auth>> ELSE <<>>

\* variant of FetcherHeader: the header is never set
NoHeader == <<>>

\* getRepoEmails, lines 397-399
FetcherHeader == IF auth # "" THEN <<"Bearer", auth>> ELSE <<>>

\* getRepos, lines 377-380: for _, d := range repoData { data = append(data, d.FullName) }
RECURSIVE ListNames(_, _)
ListNames(data, repoData) ==
    IF repoData = <<>>
    THEN data
    ELSE ListNames(Append(data, Head(repoData)), Tail(repoData))

\* getRepos: (error, list), whether log.Fatal was reached on the way, and
\* the request that went out. Every error path returns data as it was made
\* (empty); a decode error reaches log.Fatal(err, string(body)) before the
\* return.
getRepos(resp) ==
    LET data == <<>>
        req == [sent |-> TRUE, hdr |-> ListerHeader]
    IN CASE resp.kind = "url"     -> [err |-> "url", data |-> data, fatal |-> FALSE, req |-> NoReq]
         [] resp.kind = "request" -> [err |-> "request", data |-> data, fatal |-> FALSE, req |-> req]
         [] resp.kind = "read"    -> [err |-> "read", data |-> data, fatal |-> FALSE, req |-> req]
         [] resp.kind = "decode"  -> [err |-> "decode", data |-> data, fatal |-> TRUE, req |-> req]
         [] OTHER                 -> [err |-> "nil", data |-> ListNames(data, resp.body),
                                      fatal |-> FALSE, req |-> req]

\* variant of getRepoEmails: a decode error returns what was decoded so far
getRepoEmailsPartial(resp) ==
    LET req == [sent |-> TRUE, hdr |-> FetcherHeader]
    IN CASE resp.kind = "url" -> [err |-> "url", data |-> <<>>, req |-> NoReq]
         [] resp.kind \in {"ok", "decode"} ->
                [err |-> IF resp.kind = "ok" THEN "nil" ELSE "decode", req |-> req,
                 data |-> ScanCommits(EmptyAcc, resp.body).data]
         [] OTHER -> [err |-> resp.kind, data |-> <<>>, req |-> req]

\* getRepoEmails: (error, list) and the request that went out; every error
\* is returned, with data as it was made (empty)
getRepoEmails(resp) ==
    LET data == <<>>
        req == [sent |-> TRUE, hdr |-> FetcherHeader]
    IN CASE resp.kind = "url" -> [err |-> "url", data |-> data, req |-> NoReq]
         [] resp.kind = "ok"  -> [err |-> "nil", req |-> req,
                                  data |-> ScanCommits([data |-> data, unique |-> {}], resp.body).data]
         [] OTHER             -> [err |-> resp.kind, data |-> data, req |-> req]

\* -------------------------------------------------------------------- state
VARIABLES
    proc,          \* "running", "fatal" (log.Fatal: os.Exit(1)) or "panic"
    pc,            \* the Coordinator's position in checkServer's command
    msg,           \* the tea.Msg the command returned, NoMsg before
    repos,         \* the list getRepos returned
    next,          \* position of the range loop over repos
    wg,            \* the WaitGroup counter
    chan,          \* content of repoEmailsChan
    chanCap,       \* its capacity
    closed,        \* whether it was closed
    acc,           \* data and uniqueEmails of the merge
    units,         \* the goroutines, by list position
    listerCalls,   \* number of getRepos calls made
    listerErr,     \* the error getRepos returned ("nil": none, "none": not called)
    launches,      \* number of go statements executed, by list position
    fetchCalls,    \* number of getRepoEmails calls made, by list position
    arrival,       \* list positions in the order of their channel sends
    listerReq      \* the request getRepos sent, NoReq when none

\* the presentation model and the bubbletea program around it
VARIABLES
    m,             \* the model value the program holds
    program,       \* "running", "quitting" (tea.Quit returned) or "exited"
    cmds,          \* number of checkServer commands started and not yet returned
    started,       \* number of checkServer commands started
    delivered,     \* number of dataMsg and errMsg values Update has processed
    lastKey,       \* the last key Update processed, "" when none
    inbox          \* messages the commands returned that Update has not processed

\* one call of getRepoEmails followed by merges of its result, on their own
VARIABLE fn

cmdVars == <<proc, pc, msg, repos, next, wg, chan, chanCap, closed, acc, units,
             listerCalls, listerErr, launches, fetchCalls, arrival, listerReq>>

uiVars == <<m, program, cmds, started, delivered, lastKey, inbox>>

vars == <<auth, proc, pc, msg, repos, next, wg, chan, chanCap, closed, acc, units,
          listerCalls, listerErr, launches, fetchCalls, arrival, listerReq,
          m, program, cmds, started, delivered, lastKey, inbox, fn>>

\* ------------------------------------------------------ presentation model
\* m.inputs = make([]textinput.Model, 1)
NumInputs == 1

\* cursor.CursorBlink = 0 .. cursor.CursorHide
CursorHide == 2

\* bound of the number of commands one run starts
MaxCmds == 2

Keys == {"ctrl+c", "esc", "ctrl+r", "tab", "shift+tab", "enter", "up", "down", "char"}

\* initialModel(): the zero model with one focused input (the inputs' text
\* and styles are left out)
initialModel ==
    [focusIndex |-> 0, cursorMode |-> 0, isLoading |-> FALSE, isFinished |-> FALSE,
     data |-> <<>>, err |-> "nil"]

\* variant of Submit: isLoading is not set
SubmitNotLoading(mm) == [m |-> mm, cmd |-> "checkServer"]

\* Update, lines 544-547: m.isLoading = true; return m, checkServer(...)
Submit(mm) == [m |-> [mm EXCEPT !.isLoading = TRUE], cmd |-> "checkServer"]

\* variant of CycleFocus: no wrap below zero
CycleNoWrap(mm, s) ==
    LET f == IF s = "up" \/ s = "shift+tab" THEN mm.focusIndex - 1 ELSE mm.focusIndex + 1
    IN [mm EXCEPT !.focusIndex = IF f > NumInputs THEN 0 ELSE f]

\* Update, lines 550-560: cycle indexes
CycleFocus(mm, s) ==
    LET f == IF s = "up" \/ s = "shift+tab" THEN mm.focusIndex - 1 ELSE mm.focusIndex + 1
    IN [mm EXCEPT !.focusIndex = IF f > NumInputs THEN 0
                                 ELSE IF f < 0 THEN NumInputs ELSE f]

\* Update, lines 527-536: change cursor mode
CursorMode(mm) ==
    [mm EXCEPT !.cursorMode = IF mm.cursorMode + 1 > CursorHide THEN 0 ELSE mm.cursorMode + 1]

\* updateInputs: the focused input takes the character; the text of the
\* inputs is not part of the state kept here
updateInputs(mm) == mm

\* Update, case tea.KeyMsg (lines 521-584)
UpdateKey(mm, s) ==
    CASE s \in {"ctrl+c", "esc"} -> [m |-> mm, cmd |-> "quit"]
      [] s = "ctrl+r" -> [m |-> CursorMode(mm), cmd |-> "batch"]
      [] s \in {"tab", "shift+tab", "enter", "up", "down"} ->
            IF s = "enter" /\ mm.focusIndex = NumInputs
            THEN Submit(mm)
            ELSE [m |-> CycleFocus(mm, s), cmd |-> "batch"]
      [] OTHER -> [m |-> updateInputs(mm), cmd |-> "batch"]

\* Update, cases dataMsg and errMsg (lines 512-519)
UpdateMsg(mm, e) ==
    IF e.type = "dataMsg"
    THEN [m |-> [mm EXCEPT !.data = e.data, !.isFinished = TRUE], cmd |-> "quit"]
    ELSE [m |-> [mm EXCEPT !.err = e.err, !.isFinished = TRUE], cmd |-> "quit"]

\* View, lines 599-636: which of its four texts it renders
View(mm) ==
    IF mm.err # "nil" THEN "trouble"
    ELSE IF mm.isFinished THEN "result"
    ELSE IF mm.isLoading THEN "Loading..."
    ELSE "form"

\* the model once enter was pressed on the focused submit button
Submitted == Submit([initialModel EXCEPT !.focusIndex = NumInputs]).m

\* ------------------------------------------- one Fetcher call and its merges
ScanEmails == {"x@e", "y@e", "z@e"}

MaxScan == 4

ScanLists == SeqsUpTo(ScanEmails, MaxScan)

FnIdle == [pc |-> "idle", commits |-> <<>>, emails |-> <<>>, once |-> <<>>, twice |-> <<>>]

Positions == 1..MaxRepos

IdleUnit == [pc |-> "idle", repo |-> "", err |-> "nil", data |-> <<>>, req |-> NoReq]

\* the command as checkServer(user) returns it: nothing has run yet
CmdInit ==
    /\ proc = "running"
    /\ pc = "start"
    /\ msg = NoMsg
    /\ repos = <<>>
    /\ next = 1
    /\ wg = 0
    /\ chan = <<>>
    /\ chanCap = 0
    /\ closed = FALSE
    /\ acc = EmptyAcc
    /\ units = [i \in Positions |-> IdleUnit]
    /\ listerCalls = 0
    /\ listerErr = "none"
    /\ launches = [i \in Positions |-> 0]
    /\ fetchCalls = [i \in Positions |-> 0]
    /\ arrival = <<>>
    /\ listerReq = NoReq

\* the command is running: enter was pressed on the focused submit button
Init ==
    /\ CmdInit
    /\ auth \in AuthValues
    /\ m = Submitted
    /\ program = "running"
    /\ cmds = 1
    /\ started = 1
    /\ delivered = 0
    /\ lastKey = "enter"
    /\ inbox = <<>>
    /\ fn = FnIdle

\* -------------------------------------------------------------- Coordinator
\* variant of ChanCap: make(chan Wrapper), an unbuffered channel
Unbuffered(list) == 0

\* make(chan Wrapper, len(repos))
ChanCap(list) == Len(list)

\* variant of CallLister: the error message is made and the command goes on
CallListerNoReturn ==
    /\ proc = "running"
    /\ pc = "start"
    /\ \E resp \in ListerResponses :
         LET r == getRepos(resp) IN
         /\ listerCalls' = listerCalls + 1
         /\ listerErr' = r.err
         /\ listerReq' = r.req
         /\ IF r.fatal
            THEN /\ proc' = "fatal"
                 /\ UNCHANGED <<pc, msg, repos, chanCap>>
            ELSE IF r.err # "nil"
            THEN /\ repos' = r.data
                 /\ msg' = errMsg(r.err)
                 /\ pc' = "spawn"
                 /\ UNCHANGED <<proc, chanCap>>
            ELSE /\ repos' = r.data
                 /\ chanCap' = ChanCap(r.data)
                 /\ pc' = "spawn"
                 /\ UNCHANGED <<proc, msg>>
    /\ UNCHANGED <<next, wg, chan, closed, acc, units, launches, fetchCalls, arrival,
                   auth, uiVars, fn>>

\* err, repos := getRepos(user); if err != nil { return errMsg{err} };
\* repoEmailsChan := make(chan Wrapper, len(repos))
CallLister ==
    /\ proc = "running"
    /\ pc = "start"
    /\ \E resp \in ListerResponses :
         LET r == getRepos(resp) IN
         /\ listerCalls' = listerCalls + 1
         /\ listerErr' = r.err
         /\ listerReq' = r.req
         /\ IF r.fatal
            THEN /\ proc' = "fatal"
                 /\ UNCHANGED <<pc, msg, repos, chanCap>>
            ELSE IF r.err # "nil"
            THEN /\ repos' = r.data
                 /\ msg' = errMsg(r.err)
                 /\ pc' = "done"
                 /\ UNCHANGED <<proc, chanCap>>
            ELSE /\ repos' = r.data
                 /\ chanCap' = ChanCap(r.data)
                 /\ pc' = "spawn"
                 /\ UNCHANGED <<proc, msg>>
    /\ UNCHANGED <<next, wg, chan, closed, acc, units, launches, fetchCalls, arrival,
                   auth, uiVars, fn>>

\* variant of SpawnRepo: the goroutine reads the loop variable after the loop
SpawnLast(i) == repos[Len(repos)]

\* the argument of the go statement: the loop's repo, passed by value
SpawnRepo(i) == repos[i]

\* for _, repo := range repos { wg.Add(1); go func(repo, c) {...}(repo, repoEmailsChan) }
Spawn ==
    /\ proc = "running"
    /\ pc = "spawn"
    /\ next <= Len(repos)
    /\ wg' = wg + 1
    /\ units' = [units EXCEPT ![next] = [IdleUnit EXCEPT !.pc = "call", !.repo = SpawnRepo(next)]]
    /\ launches' = [launches EXCEPT ![next] = @ + 1]
    /\ next' = next + 1
    /\ UNCHANGED <<proc, pc, msg, repos, chan, chanCap, closed, acc,
                   listerCalls, listerErr, fetchCalls, arrival,
                   listerReq, auth, uiVars, fn>>

SpawnEnd ==
    /\ proc = "running"
    /\ pc = "spawn"
    /\ next > Len(repos)
    /\ pc' = "wait"
    /\ UNCHANGED <<proc, msg, repos, next, wg, chan, chanCap, closed, acc, units,
                   listerCalls, listerErr, launches, fetchCalls, arrival,
                   listerReq, auth, uiVars, fn>>

\* variant of WaitPasses: no join
WaitAlways == TRUE

\* wg.Wait() returns when the counter is zero
WaitPasses == wg = 0

Wait ==
    /\ proc = "running"
    /\ pc = "wait"
    /\ WaitPasses
    /\ pc' = "close"
    /\ UNCHANGED <<proc, msg, repos, next, wg, chan, chanCap, closed, acc, units,
                   listerCalls, listerErr, launches, fetchCalls, arrival,
                   listerReq, auth, uiVars, fn>>

\* variant of CloseChan: the channel is left open
CloseSkipped ==
    /\ proc = "running"
    /\ pc = "close"
    /\ pc' = "merge"
    /\ acc' = EmptyAcc
    /\ UNCHANGED <<proc, msg, repos, next, wg, chan, chanCap, closed, units,
                   listerCalls, listerErr, launches, fetchCalls, arrival,
                   listerReq, auth, uiVars, fn>>

\* close(repoEmailsChan); data := []string{}; uniqueEmails := make(map...)
CloseChan ==
    /\ proc = "running"
    /\ pc = "close"
    /\ closed' = TRUE
    /\ pc' = "merge"
    /\ acc' = EmptyAcc
    /\ UNCHANGED <<proc, msg, repos, next, wg, chan, chanCap, units,
                   listerCalls, listerErr, launches, fetchCalls, arrival,
                   listerReq, auth, uiVars, fn>>

\* variant of Receive: the newest item is taken
ReceiveNewest(ch) == [item |-> ch[Len(ch)], rest |-> SubSeq(ch, 1, Len(ch) - 1)]

\* a receive takes the oldest item of the channel
Receive(ch) == [item |-> Head(ch), rest |-> Tail(ch)]

\* for repoEmails := range repoEmailsChan { for _, email := range repoEmails.data {...} }
MergeNext ==
    /\ proc = "running"
    /\ pc = "merge"
    /\ chan # <<>>
    /\ acc' = MergeWrapper(acc, Receive(chan).item.data)
    /\ chan' = Receive(chan).rest
    /\ UNCHANGED <<proc, pc, msg, repos, next, wg, chanCap, closed, units,
                   listerCalls, listerErr, launches, fetchCalls, arrival,
                   listerReq, auth, uiVars, fn>>

\* the range ends when the channel is closed and empty; return dataMsg{data}
MergeEnd ==
    /\ proc = "running"
    /\ pc = "merge"
    /\ chan = <<>>
    /\ closed
    /\ msg' = dataMsg(acc.data)
    /\ pc' = "done"
    /\ UNCHANGED <<proc, repos, next, wg, chan, chanCap, closed, acc, units,
                   listerCalls, listerErr, launches, fetchCalls, arrival,
                   listerReq, auth, uiVars, fn>>

\* ------------------------------------------------------------ Fetcher units
\* err, repoEmails := getRepoEmails(repo)
UnitFetch(i) ==
    /\ proc = "running"
    /\ units[i].pc = "call"
    /\ \E resp \in FetcherResponses :
         LET r == getRepoEmails(resp) IN
         units' = [units EXCEPT ![i].pc = IF r.err # "nil" THEN "failed" ELSE "got",
                                ![i].err = r.err,
                                ![i].data = r.data,
                                ![i].req = r.req]
    /\ fetchCalls' = [fetchCalls EXCEPT ![i] = @ + 1]
    /\ UNCHANGED <<proc, pc, msg, repos, next, wg, chan, chanCap, closed, acc,
                   listerCalls, listerErr, launches, arrival,
                   listerReq, auth, uiVars, fn>>

\* variant of UnitFatal: the error is dropped and the unit goes on
UnitIgnoreErr(i) ==
    /\ proc = "running"
    /\ units[i].pc = "failed"
    /\ units' = [units EXCEPT ![i].pc = "got"]
    /\ UNCHANGED <<proc, pc, msg, repos, next, wg, chan, chanCap, closed, acc,
                   listerCalls, listerErr, launches, fetchCalls, arrival,
                   listerReq, auth, uiVars, fn>>

\* if err != nil { log.Fatal(err) }: the process exits, no deferred call runs
UnitFatal(i) ==
    /\ proc = "running"
    /\ units[i].pc = "failed"
    /\ proc' = "fatal"
    /\ UNCHANGED <<pc, msg, repos, next, wg, chan, chanCap, closed, acc, units,
                   listerCalls, listerErr, launches, fetchCalls, arrival,
                   listerReq, auth, uiVars, fn>>

\* c <- Wrapper{data: repoEmails}: blocks while the buffer is full, panics
\* when the channel is closed
UnitSend(i) ==
    /\ proc = "running"
    /\ units[i].pc = "got"
    /\ IF closed
       THEN /\ proc' = "panic"
            /\ UNCHANGED <<chan, units, arrival>>
       ELSE /\ Len(chan) < chanCap
            /\ chan' = Append(chan, Wrapper(units[i].data))
            /\ arrival' = Append(arrival, i)
            /\ units' = [units EXCEPT ![i].pc = "sent"]
            /\ UNCHANGED proc
    /\ UNCHANGED <<pc, msg, repos, next, wg, chanCap, closed, acc,
                   listerCalls, listerErr, launches, fetchCalls,
                   listerReq, auth, uiVars, fn>>

\* defer wg.Done()
UnitDone(i) ==
    /\ proc = "running"
    /\ units[i].pc = "sent"
    /\ wg' = wg - 1
    /\ units' = [units EXCEPT ![i].pc = "done"]
    /\ UNCHANGED <<proc, pc, msg, repos, next, chan, chanCap, closed, acc,
                   listerCalls, listerErr, launches, fetchCalls, arrival,
                   listerReq, auth, uiVars, fn>>

Coordinator == CallLister \/ Spawn \/ SpawnEnd \/ Wait \/ CloseChan \/ MergeNext \/ MergeEnd

Next ==
    \/ CallLister
    \/ Spawn
    \/ SpawnEnd
    \/ Wait
    \/ CloseChan
    \/ MergeNext
    \/ MergeEnd
    \/ \E i \in Positions : UnitFetch(i)
    \/ \E i \in Positions : UnitFatal(i)
    \/ \E i \in Positions : UnitSend(i)
    \/ \E i \in Positions : UnitDone(i)

Spec == Init /\ [][Next]_vars

Unit(i) == UnitFetch(i) \/ UnitFatal(i) \/ UnitSend(i) \/ UnitDone(i)

\* The runs of the command when the GITHUB_AUTH variable is unset.
NoAuthInit == Init /\ auth = ""

NoAuthSpec == NoAuthInit /\ [][Next]_vars

\* The Go scheduler runs every goroutine that can run, and every HTTP call
\* returns within the client's 10 s timeout. The credential only decides a
\* header of the requests, so the runs without one stand for all.
FairSpec ==
    /\ NoAuthSpec
    /\ WF_vars(Coordinator)
    /\ \A i \in Positions : WF_vars(Unit(i))

\* ------------------------------------------------- the program around Update
\* what a checkServer command can return: errMsg with an error of getRepos,
\* or dataMsg with the merged list
CmdOutcomes ==
    {errMsg(e) : e \in {"url", "request", "read"}}
    \cup {dataMsg(d) : d \in {l \in SeqsUpTo(Emails, Cardinality(Emails)) :
                                 \A i, j \in 1..Len(l) : i # j => l[i] # l[j]}}

InitUI ==
    /\ CmdInit
    /\ auth = ""
    /\ m = initialModel
    /\ program = "running"
    /\ cmds = 0
    /\ started = 0
    /\ delivered = 0
    /\ lastKey = ""
    /\ inbox = <<>>
    /\ fn = FnIdle

\* Update(tea.KeyMsg): the returned model replaces m, the returned command
\* is started
KeyPress ==
    /\ program \in {"running", "quitting"}
    /\ \E k \in Keys :
         LET u == UpdateKey(m, k) IN
         /\ (u.cmd = "checkServer" => started < MaxCmds)
         /\ m' = u.m
         /\ lastKey' = k
         /\ cmds' = IF u.cmd = "checkServer" THEN cmds + 1 ELSE cmds
         /\ started' = IF u.cmd = "checkServer" THEN started + 1 ELSE started
         /\ program' = IF u.cmd = "quit" THEN "quitting" ELSE program
    /\ UNCHANGED <<delivered, inbox, cmdVars, auth, fn>>

\* a running command returns its message to the program
CmdReturns ==
    /\ program \in {"running", "quitting"}
    /\ cmds > 0
    /\ \E e \in CmdOutcomes : inbox' = Append(inbox, e)
    /\ cmds' = cmds - 1
    /\ UNCHANGED <<m, program, started, delivered, lastKey, cmdVars, auth, fn>>

\* a running command reaches log.Fatal (lines 373, 454): the process exits
CmdFatal ==
    /\ program \in {"running", "quitting"}
    /\ cmds > 0
    /\ program' = "fatal"
    /\ UNCHANGED <<m, cmds, started, delivered, lastKey, inbox, cmdVars, auth, fn>>

\* Update(dataMsg) and Update(errMsg): return m, tea.Quit
Deliver ==
    /\ program \in {"running", "quitting"}
    /\ inbox # <<>>
    /\ m' = UpdateMsg(m, Head(inbox)).m
    /\ inbox' = Tail(inbox)
    /\ delivered' = delivered + 1
    /\ program' = "quitting"
    /\ UNCHANGED <<cmds, started, lastKey, cmdVars, auth, fn>>

\* the program's loop receives the QuitMsg of tea.Quit and returns
QuitDone ==
    /\ program = "quitting"
    /\ program' = "exited"
    /\ UNCHANGED <<m, cmds, started, delivered, lastKey, inbox, cmdVars, auth, fn>>

NextUI ==
    \/ KeyPress
    \/ CmdReturns
    \/ CmdFatal
    \/ Deliver
    \/ QuitDone

SpecUI == InitUI /\ [][NextUI]_vars

\* --------------------------------- getRepoEmails and the merge on their own
\* One successful getRepoEmails call on a commit list, whose result then
\* arrives twice at the merge loop.
InitFn ==
    /\ CmdInit
    /\ auth = ""
    /\ m = initialModel
    /\ program = "running"
    /\ cmds = 0
    /\ started = 0
    /\ delivered = 0
    /\ lastKey = ""
    /\ inbox = <<>>
    /\ fn \in [pc : {"in"}, commits : ScanLists, emails : {<<>>},
               once : {<<>>}, twice : {<<>>}]

\* err, repoEmails := getRepoEmails(repo), the body decoding to fn.commits
FnFetch ==
    /\ fn.pc = "in"
    /\ fn' = [fn EXCEPT !.pc = "scanned",
                        !.emails = getRepoEmails([kind |-> "ok", body |-> fn.commits]).data]
    /\ UNCHANGED <<cmdVars, uiVars, auth>>

\* the merge loop receives Wrapper{fn.emails}
FnMergeOnce ==
    /\ fn.pc = "scanned"
    /\ fn' = [fn EXCEPT !.pc = "once",
                        !.once = MergeWrapper(EmptyAcc, fn.emails).data]
    /\ UNCHANGED <<cmdVars, uiVars, auth>>

\* the merge loop receives the same Wrapper again
FnMergeTwice ==
    /\ fn.pc = "once"
    /\ fn' = [fn EXCEPT !.pc = "twice",
                        !.twice = MergeWrapper(MergeWrapper(EmptyAcc, fn.emails),
                                               fn.emails).data]
    /\ UNCHANGED <<cmdVars, uiVars, auth>>

NextFn ==
    \/ FnFetch
    \/ FnMergeOnce
    \/ FnMergeTwice

SpecFn == InitFn /\ [][NextFn]_vars

\* ------------------------------------------------------ reference notions
\* Stated without the operators of the merge, so that the properties below
\* compare the program's result with an independent description of it.
Range(s) == {s[i] : i \in 1..Len(s)}

NoDup(s) == \A i, j \in 1..Len(s) : i # j => s[i] # s[j]

\* s without every element that already occurs earlier in s
FirstSeen(s) ==
    LET keep == {i \in 1..Len(s) : \A j \in 1..(i - 1) : s[j] # s[i]}
        rank(i) == Cardinality({k \in keep : k <= i})
    IN [n \in 1..Cardinality(keep) |-> s[CHOOSE i \in keep : rank(i) = n]]

\* position of the first occurrence of e in s, 0 when there is none
FirstIndex(s, e) ==
    IF \E i \in 1..Len(s) : s[i] = e
    THEN CHOOSE i \in 1..Len(s) : s[i] = e /\ \A j \in 1..(i - 1) : s[j] # e
    ELSE 0

\* the lists the Fetcher units returned, concatenated in the given order of
\* list positions
RECURSIVE ConcatResults(_)
ConcatResults(order) ==
    IF order = <<>>
    THEN <<>>
    ELSE units[Head(order)].data \o ConcatResults(Tail(order))

ListingOrder == [i \in 1..Len(repos) |-> i]

Launched == 1..Len(repos)

ListerFailed == listerErr \notin {"none", "nil"}

FetcherFailed == \E i \in Positions : units[i].err # "nil"

\* ------------------------------------------------------------------- claims
\* C1: the list carried by the success event (dataMsg) of checkServer
\* contains no email address more than once, whatever the repositories, the
\* per-repository lists and the order in which the units complete.
C1_NoDuplicateEmail ==
    msg.type = "dataMsg" => NoDup(msg.data)

\* C1 witness: a success event merged from two repositories that share an
\* email address and differ in another.
C1_Witness ==
    /\ msg.type = "dataMsg"
    /\ Len(repos) = 2
    /\ Range(units[1].data) \cap Range(units[2].data) # {}
    /\ Range(units[1].data) # Range(units[2].data)

\* C2: any single failure of the Lister (a decode failure included) or of
\* one Fetcher unit surfaces as one errMsg returned by the Coordinator, and
\* is never a process-fatal abort raised inside getRepos or a spawned unit.
C2_FailureIsErrMsgNotFatal ==
    /\ proc # "fatal"
    /\ (pc = "done" /\ (ListerFailed \/ FetcherFailed) => msg.type = "errMsg")
    /\ (ListerFailed => msg.type = "errMsg")

\* C3: once one of the launched Fetcher calls has failed, no success event
\* (dataMsg) is ever returned, with the other repositories' emails or any
\* partial list.
C3_NoSuccessAfterFetcherFailure ==
    FetcherFailed => msg.type # "dataMsg"

\* C3 witness: one unit failed after another one handed a non-empty list
\* to the channel, and the aggregation has ended without a success event.
C3_Witness ==
    /\ proc = "fatal"
    /\ \E i, j \in Launched :
         /\ units[i].err # "nil"
         /\ units[j].pc \in {"sent", "done"}
         /\ units[j].data # <<>>
    /\ chan # <<>>
    /\ msg = NoMsg

\* C4: when the single getRepos call fails, the Coordinator reports that
\* error as the failure event and launches no Fetcher unit.
C4_ListerFailureReported ==
    ListerFailed =>
        /\ msg = errMsg(listerErr)
        /\ pc = "done"
        /\ \A i \in Positions : launches[i] = 0 /\ fetchCalls[i] = 0

\* C5: when the Lister succeeds with an empty list, no Fetcher unit is
\* launched, the Coordinator always has a step to take until it returns
\* (it blocks neither at the join nor on the zero-capacity channel), and
\* what it returns is a success event with an empty list.
C5_EmptyListSucceeds ==
    (listerErr = "nil" /\ repos = <<>>) =>
        /\ proc = "running"
        /\ \A i \in Positions : launches[i] = 0 /\ units[i].pc = "idle"
        /\ chanCap = 0 /\ chan = <<>>
        /\ (pc = "done" => msg = dataMsg(<<>>))
        /\ (pc # "done" => ENABLED Coordinator)

\* C5 witness: the aggregation of an account without repositories has
\* returned.
C5_Witness ==
    /\ listerErr = "nil"
    /\ repos = <<>>
    /\ pc = "done"
    /\ msg = dataMsg(<<>>)

\* C6: getRepos is called exactly once per aggregation; no list position is
\* launched or fetched more than once, every launched unit fetches the
\* repository at its own list position, no two units fetch the same
\* repository, no position outside the list is
\* launched, and once the range loop has ended every position of the list
\* has been launched exactly once (none skipped, none retried).
C6_OneFetcherPerRepository ==
    /\ listerCalls <= 1
    /\ (pc # "start" => listerCalls = 1)
    /\ \A i \in Positions :
         /\ launches[i] <= 1
         /\ fetchCalls[i] <= launches[i]
         /\ (i \notin Launched => launches[i] = 0)
         /\ (launches[i] = 1 => units[i].repo = repos[i])
         /\ (units[i].pc \in {"got", "failed", "sent", "done"} => fetchCalls[i] = 1)
         /\ \A j \in Positions :
              launches[i] = 1 /\ launches[j] = 1 /\ i # j =>
                  units[i].repo # units[j].repo
    /\ (pc \in {"wait", "close", "merge"} \/ msg.type = "dataMsg" =>
            \A i \in Launched : launches[i] = 1)
    /\ (msg.type = "dataMsg" => \A i \in Launched : fetchCalls[i] = 1)

\* C6 witness: a success event for a list of two different repositories,
\* each fetched once.
C6_Witness ==
    /\ msg.type = "dataMsg"
    /\ Len(repos) = 2
    /\ repos[1] # repos[2]
    /\ \A i \in Launched : fetchCalls[i] = 1 /\ units[i].repo = repos[i]

\* C7: the merge (the first receive from the channel, the first write to
\* data or uniqueEmails) starts only when every launched unit has sent its
\* result and called wg.Done; data and uniqueEmails change only in a step of
\* the Coordinator's merge loop, never in a step of a Fetcher unit.
C7_MergeStarted ==
    \/ pc \in {"close", "merge"}
    \/ msg.type = "dataMsg"
    \/ acc # EmptyAcc
    \/ Len(chan) < Len(arrival)

C7_MergeAfterJoin ==
    /\ [](C7_MergeStarted =>
            /\ Len(arrival) = Len(repos)
            /\ \A i \in Launched : units[i].pc = "done")
    /\ [][acc' # acc =>
            /\ pc = "merge" /\ pc' = "merge"
            /\ units' = units
            /\ \A i \in Launched : units[i].pc = "done"]_vars

\* C7 witness: the merge has consumed one of two results, both handed off.
C7_Witness ==
    /\ pc = "merge"
    /\ Len(repos) = 2
    /\ Len(chan) = 1
    /\ acc # EmptyAcc

\* C8: the success event carries the first-seen deduplicating fold of the
\* per-repository results taken in the order of their channel sends: it is
\* a function of the results and of that order alone.
C8_CompletionOrderFold ==
    msg.type = "dataMsg" => msg.data = FirstSeen(ConcatResults(arrival))

\* C8 witness: a success event whose sequence differs from the one the
\* listing order would have given, so another completion order of the same
\* results gives another sequence.
C8_Witness ==
    /\ msg.type = "dataMsg"
    /\ arrival # ListingOrder
    /\ msg.data # FirstSeen(ConcatResults(ListingOrder))

\* C9 as stated: the merge iterates the per-repository results in listing
\* order, so the aggregate is the fold in repository order whichever unit
\* finishes first.
C9_ListingOrderFold ==
    msg.type = "dataMsg" => msg.data = FirstSeen(ConcatResults(ListingOrder))

\* C9 as amended: the order of the aggregate is the order of first
\* occurrence in the results concatenated in completion order (within one
\* repository: commit order), and it is the listing-order fold when the
\* units complete in listing order.
C9_CompletionOrderDecides ==
    msg.type = "dataMsg" =>
        LET flat == ConcatResults(arrival) IN
        /\ \A a, b \in 1..Len(msg.data) :
             a < b => /\ FirstIndex(flat, msg.data[a]) > 0
                      /\ FirstIndex(flat, msg.data[a]) < FirstIndex(flat, msg.data[b])
        /\ (arrival = ListingOrder =>
                msg.data = FirstSeen(ConcatResults(ListingOrder)))

\* C9 witness: the second repository completed first and its emails come
\* first in the aggregate.
C9_Witness ==
    /\ msg.type = "dataMsg"
    /\ arrival = <<2, 1>>
    /\ units[1].data # <<>>
    /\ units[2].data # <<>>
    /\ Range(units[1].data) \cap Range(units[2].data) = {}
    /\ msg.data = units[2].data \o units[1].data

\* C10: when the Lister and every Fetcher succeed, the aggregate holds
\* exactly the emails of the per-repository results, each once: it is a
\* permutation of their union, for every completion order.
C10_AggregateIsUnion ==
    msg.type = "dataMsg" =>
        LET all == UNION {Range(units[i].data) : i \in Launched} IN
        /\ Range(msg.data) = all
        /\ Len(msg.data) = Cardinality(all)

\* C10 witness: one repository returned two emails, the other one of them,
\* and the aggregate holds the two.
C10_Witness ==
    /\ msg.type = "dataMsg"
    /\ Len(repos) = 2
    /\ \E i, j \in Launched :
         /\ Len(units[i].data) = 2
         /\ Len(units[j].data) = 1
    /\ Len(msg.data) = 2

\* C11: one run of checkServer's command returns at most one message, a
\* dataMsg or an errMsg; once returned it is never replaced by another one,
\* and the command has ended.
C11_AtMostOneEvent ==
    /\ [](/\ msg.type \in {"none", "dataMsg", "errMsg"}
          /\ (msg # NoMsg <=> pc = "done"))
    /\ [][msg # NoMsg => msg' = msg]_vars

\* C11 witness: the command has returned its success event for two
\* repositories.
C11_Witness ==
    /\ pc = "done"
    /\ msg.type = "dataMsg"
    /\ Len(repos) = 2
    /\ acc.data = msg.data

\* C12: with auth non-empty every request sent, by getRepos and by each
\* getRepoEmails, carries Authorization: Bearer <auth>; with auth empty no
\* request carries the header. Every call whose request could be built sent
\* one.
SentRequests ==
    {r \in {listerReq} \cup {units[i].req : i \in Positions} : r.sent}

C12_BearerOnEveryRequest ==
    /\ \A r \in SentRequests :
         /\ (auth # "" => r.hdr = <<"Bearer", auth>>)
         /\ (auth = "" => r.hdr = <<>>)
    /\ (listerErr \notin {"none", "url"} => listerReq.sent)
    /\ \A i \in Positions :
         (fetchCalls[i] = 1 /\ units[i].err # "url" => units[i].req.sent)

\* C12 witness: a credential is configured and the Lister and two Fetcher
\* units have sent their requests.
C12_Witness ==
    /\ auth # ""
    /\ listerReq.sent
    /\ Len(repos) = 2
    /\ \A i \in Launched : units[i].req.sent

\* C16: whenever getRepos or getRepoEmails returns a non-nil error, the list
\* returned with it is empty.
C16_ErrorMeansEmptyList ==
    /\ (ListerFailed /\ proc = "running" => repos = <<>> /\ pc = "done")
    /\ \A i \in Positions : units[i].err # "nil" => units[i].data = <<>>

\* C16 witness: getRepoEmails returned a decode error and an empty list.
C16_Witness ==
    \E i \in Launched :
        /\ units[i].pc = "failed"
        /\ units[i].err = "decode"
        /\ units[i].data = <<>>

\* C17: the channel's capacity is the number of launched units and each
\* unit sends at most once, so a unit that is to send can always send, the
\* channel never holds more than len(repos) items, it is closed only after
\* the last send and no send ever hits the closed channel; and in every fair
\* run in which no Lister or Fetcher call fails the command ends with a
\* success event.
C17_CapacityAndTermination ==
    /\ [](/\ (listerErr = "nil" => chanCap = Len(repos))
          /\ Len(chan) <= Len(repos)
          /\ Len(arrival) <= Len(repos)
          /\ NoDup(arrival)
          /\ proc # "panic"
          /\ \A i \in Positions :
               units[i].pc = "got" /\ proc = "running" =>
                   Len(chan) < chanCap /\ ~closed /\ ENABLED UnitSend(i)
          /\ (closed => \A i \in Launched : units[i].pc = "done")
          /\ (pc = "done" /\ listerErr = "nil" => msg.type = "dataMsg"))
    /\ <>(msg.type = "dataMsg" \/ ListerFailed \/ FetcherFailed)

\* C17 witness: both units have sent, the channel is full and not yet
\* closed.
C17_Witness ==
    /\ chanCap = 2
    /\ Len(chan) = chanCap
    /\ ~closed
    /\ pc = "wait"

\* C13: from the start of the aggregation until Update has processed a
\* completion event, isLoading is true and View renders "Loading...",
\* whatever keys are processed in between.
C13_LoadingUntilCompletion ==
    (started > 0 /\ delivered = 0) =>
        /\ m.isLoading
        /\ View(m) = "Loading..."

\* C13 witness: the aggregation runs, no event was processed yet, and a tab
\* key has moved the focus back to the input.
C13_Witness ==
    /\ started > 0
    /\ cmds > 0
    /\ delivered = 0
    /\ lastKey = "tab"
    /\ m.focusIndex = 0
    /\ m.isLoading

\* C14: getRepoEmails returns each distinct author email of the commit list
\* once, in the order of first occurrence; an empty commit list gives an
\* empty result.
C14_FirstSeenEmails ==
    fn.pc # "in" /\ fn.pc # "idle" =>
        /\ fn.emails = FirstSeen(fn.commits)
        /\ NoDup(fn.emails)
        /\ Range(fn.emails) = Range(fn.commits)
        /\ (fn.commits = <<>> => fn.emails = <<>>)

\* C14 witness: a commit list of four commits by two authors, the second
\* author first seen after a repeat of the first.
C14_Witness ==
    /\ fn.pc = "scanned"
    /\ Len(fn.commits) = 4
    /\ fn.commits[1] = fn.commits[2]
    /\ fn.commits[3] # fn.commits[1]
    /\ fn.commits[4] = fn.commits[1]
    /\ fn.emails = <<fn.commits[1], fn.commits[3]>>

\* C15: merging a per-repository list that arrives twice gives the same
\* sequence as merging it once, and merging a duplicate-free list gives
\* that list unchanged.
C15_MergeIdempotent ==
    /\ (fn.pc \in {"once", "twice"} => fn.once = fn.emails)
    /\ (fn.pc = "twice" => fn.twice = fn.once)

\* C15 witness: a list of three emails was merged twice.
C15_Witness ==
    /\ fn.pc = "twice"
    /\ Len(fn.emails) = 3
    /\ fn.twice = fn.emails

\* C18: focusIndex stays within 0..len(inputs): tab, down and enter move it
\* up by one and from len(inputs) to 0, up and shift+tab move it down by one
\* and from 0 to len(inputs); the aggregation is started only by an enter
\* key processed with focusIndex = len(inputs), and that leaves focusIndex
\* as it is.
C18_FocusAndSubmit ==
    /\ [](m.focusIndex \in 0..NumInputs)
    /\ [][m'.focusIndex # m.focusIndex =>
            /\ lastKey' \in {"tab", "shift+tab", "enter", "up", "down"}
            /\ started' = started
            /\ (lastKey' \in {"tab", "down", "enter"} =>
                    m'.focusIndex = IF m.focusIndex = NumInputs THEN 0
                                    ELSE m.focusIndex + 1)
            /\ (lastKey' \in {"up", "shift+tab"} =>
                    m'.focusIndex = IF m.focusIndex = 0 THEN NumInputs
                                    ELSE m.focusIndex - 1)]_vars
    /\ [][started' # started =>
            /\ started' = started + 1
            /\ lastKey' = "enter"
            /\ m.focusIndex = NumInputs
            /\ m'.focusIndex = m.focusIndex]_vars

\* C18 witness: the focus went up from the input to the submit button
\* (wrapping from 0), and enter there started the aggregation.
C18_Witness ==
    /\ started = 1
    /\ lastKey = "enter"
    /\ m.focusIndex = NumInputs
    /\ m.isLoading
    /\ m.cursorMode = CursorHide
====
